---- MODULE Spec2Model ----
(***************************************************************************)
(* Model of BusinessAnalyzer (src/bi_analyzer.py): analyze_question        *)
(* obtains the raw response text of the generation service from            *)
(* _call_claude and decodes it with _parse_response, a line-by-line scan   *)
(* with a mode variable and two accumulators.  Text is modelled character  *)
(* by character: a string is a sequence of one-character strings, a text   *)
(* is the characters of its lines joined by "\n".                          *)
(*                                                                         *)
(* Spec       one analyze_question request, from _call_claude to return    *)
(* SpecCache  request threads calling _call_claude on the shared analyzer  *)
(* SpecRepeat successive decodes by one analyzer                           *)
(* SpecUsage  the /api/bi/analyze-* endpoints of src/app.py                *)
(***************************************************************************)
EXTENDS Integers, Sequences, FiniteSets, TLC

VARIABLES
    request,              \* the public method called, its argument and its prompt
    response,             \* response = self._call_claude(prompt); in _call_claude, response_text
    pc,                   \* "entry", "request", "read", "invoke", "store", "call",
                          \* "scan", "parsed", "done"
    lines,                \* _parse_response: lines = response.strip().split("\n")
    idx,                  \* position of the for loop in lines (next line to read)
    keywords,             \* _parse_response local
    structured_insights,  \* _parse_response local (dict keyword -> titles/insights)
    current_keyword,      \* <<>> is None, <<name>> is the string name
    mode,                 \* "None", "keywords", "titles", "insights"
    current_titles,       \* accumulator of the open block
    current_insights,     \* accumulator of the open block
    parsed_result,        \* the dict _parse_response returned
    caught,               \* the exception bound by _parse_response's except clause, or "None"
    raised,               \* TRUE iff an exception left _parse_response
    result,               \* the dict analyze_question returned
    response_cache,       \* BusinessAnalyzer._response_cache (dict hash -> text)
    bedrock,              \* the generation service: the texts it may answer, whether it may fail
    invocations,          \* number of bedrock.invoke_model calls made
    call_exc,             \* the exception bound by _call_claude's except clause, or "None"
    th,                   \* the request threads inside _call_claude
    decode_log,           \* the decodes completed so far: text and result of each
    user_info,            \* the user's record in the database: <<>> is None
    session,              \* the Flask session (dict)
    reply,                \* the last reply: route, status, whether the analyzer ran
    served                \* analyses that succeeded since the last usage reset

vars == <<request, response, pc, lines, idx, keywords, structured_insights,
          current_keyword, mode, current_titles, current_insights,
          parsed_result, caught, raised, result,
          response_cache, bedrock, invocations, call_exc, th,
          decode_log, user_info, session, reply, served>>

\* the state of one request's decode
parser == <<request, response, pc, lines, idx, keywords, structured_insights,
            current_keyword, mode, current_titles, current_insights,
            parsed_result, caught, raised, result>>

\* the analyzer's cache and the generation service
service == <<response_cache, bedrock, invocations, call_exc, th>>

\* the web application
web == <<user_info, session, reply, served>>

(***************************************************************************)
(* Bounds of the model.                                                    *)
(***************************************************************************)
MaxTail == 2     \* free lines appended to a prefix text
MaxKw == 5       \* keyword blocks of a well-formed text
MaxItems == 3    \* title lines / detail lines per well-formed block
MaxCalls == 2    \* calls of _call_claude per request thread; calls of the service
MaxDecodes == 3  \* decodes that one analyzer has completed before the last one
MaxServed == 4   \* successful analyses counted between two usage resets

(***************************************************************************)
(* Python str operations used by the parser.                               *)
(***************************************************************************)
\* str.isdigit(): the characters with the Unicode property Digit.  Listed are
\* all of them that a string of this module can hold: the ASCII digits, the
\* superscripts of Latin-1, and the digits of the other scripts and the
\* subscript, dotted and circled digits, as far as they can be written here.
Digits ==
    {
     "0", "1", "2", "3", "4", "5", "6", "7", "8", "9",
     "²", "³", "¹", "۰", "۱", "۲", "۳", "۴", "۵", "۶",
     "۷", "۸", "۹", "߀", "߁", "߂", "߃", "߄", "߅", "߆",
     "߇", "߈", "߉", "০", "১", "২", "৩", "৪", "৫", "৬",
     "৭", "৮", "৯", "૦", "૧", "૨", "૩", "૪", "૫", "૬",
     "૭", "૮", "૯", "௦", "௧", "௨", "௩", "௪", "௫", "௬",
     "௭", "௮", "௯", "೦", "೧", "೨", "೩", "೪", "೫", "೬",
     "೭", "೮", "೯", "෦", "෧", "෨", "෩", "෪", "෫", "෬",
     "෭", "෮", "෯", "໐", "໑", "໒", "໓", "໔", "໕", "໖",
     "໗", "໘", "໙", "႐", "႑", "႒", "႓", "႔", "႕", "႖",
     "႗", "႘", "႙", "០", "១", "២", "៣", "៤", "៥", "៦",
     "៧", "៨", "៩", "᧐", "᧑", "᧒", "᧓", "᧔", "᧕", "᧖",
     "᧗", "᧘", "᧙", "᧚", "᪀", "᪁", "᪂", "᪃", "᪄", "᪅",
     "᪆", "᪇", "᪈", "᪉", "᪐", "᪑", "᪒", "᪓", "᪔", "᪕",
     "᪖", "᪗", "᪘", "᪙", "᮰", "᮱", "᮲", "᮳", "᮴", "᮵",
     "᮶", "᮷", "᮸", "᮹", "₀", "₁", "₂", "₃", "₄", "₅",
     "₆", "₇", "₈", "₉", "⒈", "⒉", "⒊", "⒋", "⒌", "⒍",
     "⒎", "⒏", "⒐", "⓪", "⓵", "⓶", "⓷", "⓸", "⓹", "⓺",
     "⓻", "⓼", "⓽", "⓿", "➀", "➁", "➂", "➃", "➄", "➅",
     "➆", "➇", "➈", "➊", "➋", "➌", "➍", "➎", "➏", "➐",
     "➑", "➒", "꣐", "꣑", "꣒", "꣓", "꣔", "꣕", "꣖", "꣗",
     "꣘", "꣙", "꧐", "꧑", "꧒", "꧓", "꧔", "꧕", "꧖", "꧗",
     "꧘", "꧙", "꧰", "꧱", "꧲", "꧳", "꧴", "꧵", "꧶", "꧷",
     "꧸", "꧹", "꯰", "꯱", "꯲", "꯳", "꯴", "꯵", "꯶", "꯷",
     "꯸", "꯹"}

\* str.strip(): the characters for which str.isspace() holds.  Listed are
\* space, \n, \t, \r, form feed, vertical tab, the separators 1C-1F, NEL (85),
\* the no-break space (A0) and the ogham space mark (1680); the spaces from
\* U+2000 on cannot be written in a string here and are not in the alphabet.
Whitespace ==
    {" ", "\n", "\t", "\r", "\f", "", "", "", "", "",
     "", " ", " "}

IsDigit(c) == c \in Digits

RECURSIVE LStrip(_)
LStrip(s) ==
    IF s = <<>> THEN <<>>
    ELSE IF Head(s) \in Whitespace THEN LStrip(Tail(s))
    ELSE s

RECURSIVE RStrip(_)
RStrip(s) ==
    IF s = <<>> THEN <<>>
    ELSE IF s[Len(s)] \in Whitespace THEN RStrip(SubSeq(s, 1, Len(s) - 1))
    ELSE s

\* str.strip()
Strip(s) == RStrip(LStrip(s))

\* str.startswith(p)
StartsWith(s, p) == Len(s) >= Len(p) /\ SubSeq(s, 1, Len(p)) = p

\* c in s, for a one-character c
Contains(s, c) == \E k \in 1..Len(s) : s[k] = c

\* position of the first c in s; 0 if there is none
RECURSIVE FindFrom(_, _, _)
FindFrom(s, c, k) ==
    IF k > Len(s) THEN 0
    ELSE IF s[k] = c THEN k
    ELSE FindFrom(s, c, k + 1)

Find(s, c) == FindFrom(s, c, 1)

\* s.split(c): every piece, empty pieces included
RECURSIVE Split(_, _)
Split(s, c) ==
    LET p == Find(s, c) IN
    IF p = 0 THEN <<s>>
    ELSE <<SubSeq(s, 1, p - 1)>> \o Split(SubSeq(s, p + 1, Len(s)), c)

\* s.split(c, 1): at most two pieces
SplitOnce(s, c) ==
    LET p == Find(s, c) IN
    IF p = 0 THEN <<s>>
    ELSE <<SubSeq(s, 1, p - 1), SubSeq(s, p + 1, Len(s))>>

\* s.replace(c, "") for a one-character c
RECURSIVE Remove(_, _)
Remove(s, c) ==
    IF s = <<>> THEN <<>>
    ELSE IF Head(s) = c THEN Remove(Tail(s), c)
    ELSE <<Head(s)>> \o Remove(Tail(s), c)

BOLD == <<"*","*">>

\* s.replace("**", ""): non-overlapping occurrences, left to right
RECURSIVE RemoveBold(_)
RemoveBold(s) ==
    IF s = <<>> THEN <<>>
    ELSE IF StartsWith(s, BOLD) THEN RemoveBold(SubSeq(s, 3, Len(s)))
    ELSE <<Head(s)>> \o RemoveBold(Tail(s))

\* sep.join(ls) for a one-character sep
RECURSIVE Join(_, _)
Join(ls, sep) ==
    IF ls = <<>> THEN <<>>
    ELSE IF Len(ls) = 1 THEN ls[1]
    ELSE ls[1] \o <<sep>> \o Join(Tail(ls), sep)

\* [f(x) for x in ls if x.strip()] with f = strip
RECURSIVE StripNonEmpty(_)
StripNonEmpty(ls) ==
    IF ls = <<>> THEN <<>>
    ELSE IF Strip(Head(ls)) # <<>> THEN <<Strip(Head(ls))>> \o StripNonEmpty(Tail(ls))
    ELSE StripNonEmpty(Tail(ls))

(***************************************************************************)
(* The markers of the response format and the parser's helpers.            *)
(***************************************************************************)
KEYWORDS_MARKER ==
    <<"*","*","K","E","Y","W","O","R","D","S"," ","I","D","E","N","T","I","F","I","E","D",":","*","*">>

KEYWORD_PREFIX == <<"*","*","K","E","Y","W","O","R","D">>

INSIGHTS_MARKER == <<"*","*","I","N","S","I","G","H","T","S",":","*","*">>

ACTIONS_MARKER == <<"*","*","A","C","T","I","O","N","S",":","*","*">>

ERROR_PREFIX == <<"E","r","r","o","r",":">>

DASH == <<"-"," ">>

\* the empty dict
EmptyMap == [k \in {} |-> <<>>]

\* d[k] = v on a dict
Put(d, k, v) == [x \in (DOMAIN d) \cup {k} |-> IF x = k THEN v ELSE d[x]]

\* truth value of current_keyword: None and "" are false
Truthy(ck) == ck # <<>> /\ ck[1] # <<>>

\* the keyword line decoded with repeated keywords dropped
RECURSIVE Dedup(_)
Dedup(ks) ==
    IF ks = <<>> THEN <<>>
    ELSE LET front == Dedup(SubSeq(ks, 1, Len(ks) - 1)) IN
         IF \E i \in 1..Len(front) : front[i] = ks[Len(ks)]
         THEN front ELSE Append(front, ks[Len(ks)])

ParseKeywordLine_Dedup(line) ==
    Dedup(StripNonEmpty(Split(Remove(Remove(line, "["), "]"), ",")))

\* a line without the bracket it opens with and the bracket it ends with
EnclosingStripped(line) ==
    LET a == IF line # <<>> /\ Head(line) = "[" THEN Tail(line) ELSE line
    IN  IF a # <<>> /\ a[Len(a)] = "]" THEN SubSeq(a, 1, Len(a) - 1) ELSE a

\* the keyword line decoded with only the enclosing brackets taken out
ParseKeywordLine_EnclosingOnly(line) ==
    StripNonEmpty(Split(EnclosingStripped(line), ","))

\* keyword_line = line.replace("[", "").replace("]", "");
\* [k.strip() for k in keyword_line.split(",") if k.strip()]
ParseKeywordLine(line) ==
    StripNonEmpty(Split(Remove(Remove(line, "["), "]"), ","))

\* the keyword name with the closing bold marker left on it
KeywordName_KeepsBold(line) ==
    Strip(SplitOnce(line, ":")[2])

\* line.split(":", 1)[1].strip() then .replace("**", "").strip()
KeywordName(line) ==
    Strip(RemoveBold(Strip(SplitOnce(line, ":")[2])))

\* block close that extends an entry already stored under the keyword
BlockClose_Merges(si, ck, titles, details) ==
    IF Truthy(ck) /\ (titles # <<>> \/ details # <<>>)
    THEN IF ck[1] \in DOMAIN si
         THEN Put(si, ck[1], [titles |-> si[ck[1]].titles \o titles,
                              insights |-> si[ck[1]].insights \o details])
         ELSE Put(si, ck[1], [titles |-> titles, insights |-> details])
    ELSE si

\* block close without the test of the accumulators
BlockClose_WritesEmpty(si, ck, titles, details) ==
    IF Truthy(ck)
    THEN Put(si, ck[1], [titles |-> titles, insights |-> details])
    ELSE si

\* if current_keyword and (current_titles or current_insights):
\*     structured_insights[current_keyword] = {...}
BlockClose(si, ck, titles, details) ==
    IF Truthy(ck) /\ (titles # <<>> \/ details # <<>>)
    THEN Put(si, ck[1], [titles |-> titles, insights |-> details])
    ELSE si

\* line[0].isdigit() or line.startswith("- ")
IsItem(line) == IsDigit(line[1]) \/ StartsWith(line, DASH)

\* line.split(".", 1)[1] raises IndexError when the line has no period
ItemFaults(line) == IsDigit(line[1]) /\ ~Contains(line, ".")

\* content = line.split(".", 1)[1].strip() if line[0].isdigit() else line[2:].strip()
ItemContent(line) ==
    IF IsDigit(line[1])
    THEN Strip(SplitOnce(line, ".")[2])
    ELSE Strip(SubSeq(line, 3, Len(line)))

\* an except clause that lets the exception through
ParseExcept_Reraises ==
    [returned |-> FALSE,
     value |-> [keywords |-> <<>>, structured_insights |-> EmptyMap]]

\* except Exception as e: return {"keywords": [], "structured_insights": {}}
ParseExcept ==
    [returned |-> TRUE,
     value |-> [keywords |-> <<>>, structured_insights |-> EmptyMap]]

\* the chain with the item branches open whether or not a keyword is set
Branch_NoKeywordGate(line, m, ck) ==
    IF line = <<>> THEN "blank"
    ELSE IF StartsWith(line, KEYWORDS_MARKER) THEN "keywords_marker"
    ELSE IF m = "keywords" /\ ~StartsWith(line, BOLD) THEN "keyword_list"
    ELSE IF StartsWith(line, KEYWORD_PREFIX) /\ Contains(line, ":") THEN "keyword_header"
    ELSE IF StartsWith(line, INSIGHTS_MARKER) THEN "titles_marker"
    ELSE IF StartsWith(line, ACTIONS_MARKER) THEN "actions_marker"
    ELSE IF m = "titles" THEN "titles"
    ELSE IF m = "insights" THEN "insights"
    ELSE "none"

\* the chain with the keyword list taken from any line, bold or not
Branch_ListTakesBold(line, m, ck) ==
    IF line = <<>> THEN "blank"
    ELSE IF StartsWith(line, KEYWORDS_MARKER) THEN "keywords_marker"
    ELSE IF m = "keywords" THEN "keyword_list"
    ELSE IF StartsWith(line, KEYWORD_PREFIX) /\ Contains(line, ":") THEN "keyword_header"
    ELSE IF StartsWith(line, INSIGHTS_MARKER) THEN "titles_marker"
    ELSE IF StartsWith(line, ACTIONS_MARKER) THEN "actions_marker"
    ELSE IF m = "titles" /\ Truthy(ck) THEN "titles"
    ELSE IF m = "insights" /\ Truthy(ck) THEN "insights"
    ELSE "none"

\* The branch of the if/elif chain that a stripped line takes.
Branch(line, m, ck) ==
    IF line = <<>> THEN "blank"
    ELSE IF StartsWith(line, KEYWORDS_MARKER) THEN "keywords_marker"
    ELSE IF m = "keywords" /\ ~StartsWith(line, BOLD) THEN "keyword_list"
    ELSE IF StartsWith(line, KEYWORD_PREFIX) /\ Contains(line, ":") THEN "keyword_header"
    ELSE IF StartsWith(line, INSIGHTS_MARKER) THEN "titles_marker"
    ELSE IF StartsWith(line, ACTIONS_MARKER) THEN "actions_marker"
    ELSE IF m = "titles" /\ Truthy(ck) THEN "titles"
    ELSE IF m = "insights" /\ Truthy(ck) THEN "insights"
    ELSE "none"

(***************************************************************************)
(* The input texts.  A text is a prefix (a text that brings the parser     *)
(* into a block) followed by at most MaxTail lines of LineSet, or a        *)
(* well-formed response of the prompt's format, or an error string of      *)
(* _call_claude.                                                           *)
(***************************************************************************)
L_KW == KEYWORDS_MARKER                                           \* **KEYWORDS IDENTIFIED:**
L_LIST == <<"[","A",","," ","B","]">>                             \* [A, B]
L_LIST6 == <<"A",",","B",",","C",",","D",",","E",",","F">>        \* A,B,C,D,E,F
L_LISTDUP == <<" ","B"," ",",",","," ","A",",","B">>              \*  B ,, A,B
L_LISTBR == <<"[","A","[","x","]",","," ","B","]">>               \* [A[x], B]
L_HDR_A == <<"*","*","K","E","Y","W","O","R","D"," ","1",":"," ","A","*","*">>  \* **KEYWORD 1: A**
L_HDR_B == <<"*","*","K","E","Y","W","O","R","D"," ","2",":"," ","B","*","*">>  \* **KEYWORD 2: B**
L_HDR_NOCOLON == <<"*","*","K","E","Y","W","O","R","D"," ","3"," ","C","*","*">> \* **KEYWORD 3 C**
L_HDR_NONAME == <<"*","*","K","E","Y","W","O","R","D"," ","4",":","*","*">>     \* **KEYWORD 4:**
L_INS == INSIGHTS_MARKER                                          \* **INSIGHTS:**
L_ACT == ACTIONS_MARKER                                           \* **ACTIONS:**
L_NUM == <<"1","."," ","x">>                                      \* 1. x
L_DASH == <<"-"," ","y">>                                         \* - y
L_DIGIT == <<"2"," ","z">>                                        \* 2 z
L_DIGITDOT == <<"5"," ","p","."," ","q">>                         \* 5 p. q
L_CONT == <<"w"," ","v">>                                         \* w v
L_NOCONTENT == <<"3",".">>                                        \* 3.
L_BOLD == <<"*","*","N","*","*">>                                 \* **N**
L_BLANK == <<" ","\f">>                                           \* space, form feed
L_SUPER == <<"²"," ","y">>                                        \* superscript two, y

LineSet ==
    {L_KW, L_LIST, L_LIST6, L_LISTDUP, L_LISTBR, L_HDR_A, L_HDR_B, L_HDR_NOCOLON,
     L_HDR_NONAME, L_INS, L_ACT, L_NUM, L_DASH, L_DIGIT, L_DIGITDOT, L_CONT,
     L_NOCONTENT, L_BOLD, L_BLANK, L_SUPER}

\* keyword A open in titles mode with one title
P_TITLES == <<L_HDR_A, L_INS, L_NUM>>

\* keywords listed, keyword A open in details mode with one title and one detail
P_DETAILS == <<L_KW, L_LIST, L_HDR_A, L_INS, L_DASH, L_ACT, L_NUM>>

\* block A closed with one detail, keyword B open in details mode, nothing collected
P_CLOSED == <<L_HDR_A, L_ACT, L_NUM, L_HDR_B>>

\* keyword B opened right after the keywords marker, in keywords mode
P_MARKED == <<L_KW, L_HDR_B>>

Prefixes == {<<>>, P_TITLES, P_DETAILS, P_CLOSED, P_MARKED}

Tails == UNION {[1..n -> LineSet] : n \in 0..MaxTail}

DigitChar(i) == <<"1", "2", "3", "4", "5", "6", "7", "8", "9">>[i]

\* the name of the i-th keyword of a well-formed text: Ki
KwName(i) == <<"K", DigitChar(i)>>

\* [K1, K2, ..., Kn]
WFList(n) == <<"[">> \o Join([i \in 1..n |-> IF i = 1 THEN KwName(i) ELSE <<" ">> \o KwName(i)], ",") \o <<"]">>

\* **KEYWORD i: Ki**
WFHeader(i) == KEYWORD_PREFIX \o <<" ", DigitChar(i), ":", " ">> \o KwName(i) \o BOLD

\* the j-th title / detail of keyword i: Tij / Dij
WFTitle(i, j) == <<"T", DigitChar(i), DigitChar(j)>>
WFDetail(i, j) == <<"D", DigitChar(i), DigitChar(j)>>

\* j. <content>
Numbered(j, content) == <<DigitChar(j), ".", " ">> \o content

WFBlock(i, t, d) ==
    <<WFHeader(i), L_INS>> \o [j \in 1..t |-> Numbered(j, WFTitle(i, j))]
        \o <<L_ACT>> \o [j \in 1..d |-> Numbered(j, WFDetail(i, j))]

RECURSIVE WFBlocks(_, _, _)
WFBlocks(n, t, d) ==
    IF n = 0 THEN <<>> ELSE WFBlocks(n - 1, t, d) \o WFBlock(n, t, d)

\* the lines of the well-formed text with n keywords, t titles and d details each
WellFormed(n, t, d) == <<L_KW, WFList(n)>> \o WFBlocks(n, t, d)

WFParams == {p \in (1..MaxKw) \X (0..MaxItems) \X (0..MaxItems) : p[2] + p[3] >= 1}

ERROR_TEXT == ERROR_PREFIX \o <<" ", "e">>

Inputs ==
    {Join(p \o t, "\n") : p \in Prefixes, t \in Tails}
        \cup {Join(WellFormed(p[1], p[2], p[3]), "\n") : p \in WFParams}
        \cup {ERROR_TEXT}

(***************************************************************************)
(* _call_claude and its cache.                                             *)
(***************************************************************************)
\* the prompts of the model: the business prompts of the questions "q" and
\* "q2" (line 28), the content prompts of the texts "some text", "   " and
\* ['a'] (line 53), and the content prompt of a text that holds a lone
\* surrogate, which prompt.encode() does not encode
Prompts == {"p1", "p2"}

ContentPrompts == {"c1", "c2", "c3"}

BAD_PROMPT == "bad"

\* prompt.encode() returns
Encodable(p) == p # BAD_PROMPT

\* hashlib.md5(prompt.encode()).hexdigest(): different prompts have different
\* digests; no prompt and a prompt that is not encoded have none
PromptHash(p) ==
    CASE p = "p1" -> "h1"
      [] p = "p2" -> "h2"
      [] p = "c1" -> "h3"
      [] p = "c2" -> "h4"
      [] p = "c3" -> "h5"
      [] OTHER -> "none"

\* the Python values that a question or a text is given as, written with
\* their type: strings (two questions, a text, a blank and an empty string, a
\* string with a lone surrogate), None, the integers 0 and 5, a list
QuestionValues ==
    {"str:q", "str:q2", "str:   ", "str:", "str:\\ud800", "None", "int:0", "int:5",
     "list:['a']"}

TextValues ==
    {"str:some text", "str:   ", "str:", "str:\\ud800", "None", "int:0", "int:5",
     "list:['a']"}

\* not v
Falsy(v) == v \in {"str:", "None", "int:0"}

\* v has the methods of str
IsStr(v) ==
    v \in {"str:q", "str:q2", "str:some text", "str:   ", "str:", "str:\\ud800"}

\* not v.strip(), for a string
StripsEmpty(v) == v \in {"str:", "str:   "}

\* v[:2000] returns: strings and lists
Sliceable(v) == IsStr(v) \/ v = "list:['a']"

\* v.encode() raises UnicodeEncodeError
HasSurrogate(v) == v = "str:\\ud800"

\* the public methods of the analyzer and what they are called with: a
\* question value, a text value, or a url or file whose fetch yields the text
\* "some text" (filled), yields no text (empty) or raises (unreadable)
Methods == {"analyze_question", "analyze_text", "analyze_url", "analyze_file"}

Args(fn) ==
    CASE fn = "analyze_question" -> QuestionValues
      [] fn = "analyze_text" -> TextValues
      [] fn = "analyze_url" -> {"filled", "empty", "unreadable"}
      [] fn = "analyze_file" -> {"filled", "empty", "unreadable"}

Requests == UNION {{[fn |-> fn, arg |-> a] : a \in Args(fn)} : fn \in Methods}

NoRequest == [fn |-> "none", arg |-> "none"]

\* analysis_id = hashlib.md5(f"{question}_{custom_keywords}".encode()).hexdigest()[:8]
\* with no custom keywords, for the questions "q" and "q2"
AnalysisId(req) ==
    CASE req.arg = "str:q" -> "8e4b93fc"
      [] req.arg = "str:q2" -> "55489313"

\* the prompt that the method builds: _get_business_prompt(question, ...) or
\* _get_content_prompt(..., text[:2000])
PromptOf(req) ==
    CASE req.fn = "analyze_question" /\ req.arg = "str:q" -> "p1"
      [] req.fn = "analyze_question" /\ req.arg = "str:q2" -> "p2"
      [] req.fn = "analyze_text" /\ req.arg = "str:some text" -> "c1"
      [] req.fn = "analyze_text" /\ req.arg = "str:   " -> "c2"
      [] req.fn = "analyze_text" /\ req.arg = "list:['a']" -> "c3"
      [] req.fn = "analyze_text" /\ req.arg = "str:\\ud800" -> BAD_PROMPT
      [] req.fn \in {"analyze_url", "analyze_file"} /\ req.arg = "filled" -> "c1"
      [] OTHER -> "none"

\* return f"Error calling Claude: {str(e)}", with str(e) = "e"
CALL_ERROR ==
    <<"E","r","r","o","r"," ","c","a","l","l","i","n","g"," ","C","l","a","u","d","e",":"," ","e">>

\* two texts that the service may answer to the same prompt
CacheTexts == {Join(P_TITLES, "\n"), Join(P_CLOSED, "\n")}

\* the answers of the service to the requests of every method
ServiceTexts == CacheTexts \cup {ERROR_TEXT}

\* prompt_hash in self._response_cache
Cached(cache, h) == h \in DOMAIN cache

\* a cache of one entry: storing evicts what was cached
CacheStore_Evicts(cache, h, text) == [x \in {h} |-> text]

\* self._response_cache[prompt_hash] = response_text
CacheStore(cache, h, text) == Put(cache, h, text)

\* a thread that is not inside _call_claude
Idle == [pc |-> "idle", prompt |-> "none", text |-> <<>>, ret |-> <<>>,
         exc |-> "None", calls |-> 0]

Threads == {1, 2}

\* before the first request
NoReply == [route |-> "none", status |-> 0, analyzed |-> FALSE]

\* the parts of the state that a specification does not use
ServiceUnused ==
    /\ response_cache = EmptyMap
    /\ bedrock = [texts |-> {}, may_fail |-> FALSE]
    /\ invocations = 0
    /\ call_exc = "None"
    /\ th = [t \in Threads |-> Idle]

RepeatUnused == decode_log = <<>>

WebUnused ==
    /\ user_info = <<>>
    /\ session = EmptyMap
    /\ reply = NoReply
    /\ served = 0

(***************************************************************************)
(* analyze_question: the call of _call_claude, then _parse_response, one   *)
(* action per pass of its loop, then the return.                           *)
(***************************************************************************)
NoResult == [error |-> "unset"]

\* the parser before a request
ParserInit ==
    /\ lines = <<>>
    /\ idx = 1
    /\ keywords = <<>>
    /\ structured_insights = EmptyMap
    /\ current_keyword = <<>>
    /\ mode = "None"
    /\ current_titles = <<>>
    /\ current_insights = <<>>
    /\ parsed_result = NoResult
    /\ caught = "None"
    /\ raised = FALSE
    /\ result = NoResult

\* another request thread that missed the cache for prompt p, got the answer
\* text from the service and has not stored it yet
Storing(p, text) ==
    [pc |-> "store", prompt |-> p, text |-> text, ret |-> <<>>, exc |-> "None",
     calls |-> 1]

\* a request on a new analyzer: analyze_question with a question, the service
\* answering one given text; or any method with any argument, on a cache that
\* is empty or holds an answer to the prompt of the request, the service
\* answering one of several texts or failing, alone or beside another thread
\* that is in _call_claude for the same prompt
Init ==
    /\ pc = "entry"
    /\ response = <<>>
    /\ ParserInit
    /\ \/ /\ request = [fn |-> "analyze_question", arg |-> "str:q"]
          /\ bedrock \in {[texts |-> {t}, may_fail |-> FALSE] : t \in Inputs}
          /\ response_cache = EmptyMap
          /\ th = [t \in Threads |-> Idle]
       \/ /\ request \in Requests
          /\ bedrock = [texts |-> ServiceTexts, may_fail |-> TRUE]
          /\ LET p == PromptOf(request)
                 texts == IF p \in Prompts \cup ContentPrompts
                          THEN ServiceTexts ELSE {}
             IN  /\ response_cache \in
                        {EmptyMap} \cup {[h \in {PromptHash(p)} |-> t] : t \in texts}
                 /\ th \in {[t \in Threads |-> IF t = 2 THEN o ELSE Idle] :
                               o \in {Idle} \cup {Storing(p, t) : t \in texts}}
    /\ invocations = IF th[2] = Idle THEN 0 ELSE 1
    /\ call_exc = "None"
    /\ RepeatUnused
    /\ WebUnused

locals == <<keywords, structured_insights, current_keyword, mode,
            current_titles, current_insights>>

returns == <<parsed_result, caught, raised, result>>

\* the method returns before it calls the service.  analyze_question: the
\* question is falsy or blank (lines 24-25), has no strip method (line 24
\* raises, lines 42-44) or is not encoded (line 27 raises).  analyze_text: the
\* text is falsy (lines 49-50) or text[:2000] raises (line 53, lines 66-68).
\* analyze_url, analyze_file: the fetch raises (lines 86-88, 102-104) or
\* yields no text (analyze_text, lines 49-50).
EntryReturns(req) ==
    CASE req.fn = "analyze_question" ->
             \/ Falsy(req.arg)
             \/ ~IsStr(req.arg)
             \/ StripsEmpty(req.arg)
             \/ HasSurrogate(req.arg)
      [] req.fn = "analyze_text" -> Falsy(req.arg) \/ ~Sliceable(req.arg)
      [] OTHER -> req.arg # "filled"

EntryResult(req) ==
    CASE req.fn = "analyze_question" ->
             IF Falsy(req.arg) \/ (IsStr(req.arg) /\ StripsEmpty(req.arg))
             THEN [error |-> "Question cannot be empty", keywords |-> <<>>,
                   insights |-> EmptyMap]
             ELSE [error |-> "Analysis failed", keywords |-> <<>>,
                   insights |-> EmptyMap]
      [] req.fn = "analyze_text" ->
             IF Falsy(req.arg)
             THEN [error |-> "Text content is required"]
             ELSE [error |-> "Text analysis failed"]
      [] req.fn = "analyze_url" ->
             IF req.arg = "unreadable"
             THEN [error |-> "URL analysis failed"]
             ELSE [error |-> "Text content is required"]
      [] req.fn = "analyze_file" ->
             IF req.arg = "unreadable"
             THEN [error |-> "File analysis failed"]
             ELSE [error |-> "Text content is required"]

\* analyze_question / analyze_text / analyze_url / analyze_file, up to the
\* call of _call_claude
AnalyzeEntry ==
    /\ pc = "entry"
    /\ IF EntryReturns(request)
       THEN /\ result' = EntryResult(request)
            /\ pc' = "done"
       ELSE /\ result' = result
            /\ pc' = "request"
    /\ UNCHANGED <<request, response, lines, idx, locals, parsed_result, caught,
                   raised, service, decode_log, web>>

\* _call_claude: prompt_hash = ...; if prompt_hash in self._response_cache
CallClaudeTest ==
    /\ pc = "request"
    /\ Encodable(PromptOf(request))
    /\ pc' = IF Cached(response_cache, PromptHash(PromptOf(request)))
             THEN "read" ELSE "invoke"
    /\ UNCHANGED <<request, response, lines, idx, locals, returns, service,
                   decode_log, web>>

\* _call_claude, cache hit: return self._response_cache[prompt_hash]
CallClaudeCached ==
    /\ pc = "read"
    /\ response' = response_cache[PromptHash(PromptOf(request))]
    /\ pc' = "call"
    /\ UNCHANGED <<request, lines, idx, locals, returns, service, decode_log, web>>

\* _call_claude, cache miss: the service answers, response_text is its text
CallClaudeInvokes ==
    /\ pc = "invoke"
    /\ \E text \in bedrock.texts : response' = text
    /\ invocations' = invocations + 1
    /\ pc' = "store"
    /\ UNCHANGED <<request, lines, idx, locals, returns, response_cache, bedrock,
                   call_exc, th, decode_log, web>>

\* self._response_cache[prompt_hash] = response_text; return response_text
CallClaudeStores ==
    /\ pc = "store"
    /\ response_cache' =
           CacheStore(response_cache, PromptHash(PromptOf(request)), response)
    /\ pc' = "call"
    /\ UNCHANGED <<request, response, lines, idx, locals, returns, bedrock,
                   invocations, call_exc, th, decode_log, web>>

\* _call_claude, the try block raises and the except clause returns the error
\* string: prompt.encode() before the cache test, on a prompt that is not
\* encoded; boto3.client before the service is called, or invoke_model and the
\* reading of its answer after it was called
CallClaudeFails ==
    /\ \/ /\ pc = "request"
          /\ ~Encodable(PromptOf(request))
          /\ invocations' = invocations
       \/ /\ pc = "invoke"
          /\ bedrock.may_fail
          /\ \E called \in BOOLEAN :
                 invocations' = IF called THEN invocations + 1 ELSE invocations
    /\ call_exc' = "Exception"
    /\ response' = CALL_ERROR
    /\ pc' = "call"
    /\ UNCHANGED <<request, lines, idx, locals, returns, response_cache, bedrock,
                   th, decode_log, web>>

\* the other request thread runs lines 133-134 while this request is in
\* _call_claude: it stores its answer (a store after this request has left
\* _call_claude has no effect on the request)
OtherThreadStores ==
    /\ pc \in {"request", "read", "invoke", "store"}
    /\ th[2].pc = "store"
    /\ response_cache' =
           CacheStore(response_cache, PromptHash(th[2].prompt), th[2].text)
    /\ th' = [th EXCEPT ![2].pc = "idle", ![2].ret = th[2].text]
    /\ UNCHANGED <<parser, bedrock, invocations, call_exc, decode_log, web>>

\* if response.startswith("Error:"): return {"error": response, ...}
ErrorReturn ==
    /\ pc = "call"
    /\ StartsWith(response, ERROR_PREFIX)
    /\ result' = IF request.fn = "analyze_question"
                 THEN [keywords |-> <<>>, insights |-> EmptyMap, error |-> "response"]
                 ELSE [error |-> "response"]
    /\ pc' = "done"
    /\ UNCHANGED <<request, response, lines, idx, locals, parsed_result, caught, raised>>
    /\ UNCHANGED <<service, decode_log, web>>

\* an entry that keeps the keywords and insights of the previous decode, as
\* if they were attributes of the analyzer
ParseStart_KeepsResult ==
    /\ pc = "call"
    /\ ~StartsWith(response, ERROR_PREFIX)
    /\ lines' = Split(Strip(response), "\n")
    /\ idx' = 1
    /\ current_keyword' = <<>>
    /\ mode' = "None"
    /\ current_titles' = <<>>
    /\ current_insights' = <<>>
    /\ pc' = "scan"
    /\ UNCHANGED <<request, response, keywords, structured_insights, returns, service,
                   decode_log, web>>

\* parsed_result = self._parse_response(response): entry, up to the loop
ParseStart ==
    /\ pc = "call"
    /\ ~StartsWith(response, ERROR_PREFIX)
    /\ lines' = Split(Strip(response), "\n")
    /\ idx' = 1
    /\ keywords' = <<>>
    /\ structured_insights' = EmptyMap
    /\ current_keyword' = <<>>
    /\ mode' = "None"
    /\ current_titles' = <<>>
    /\ current_insights' = <<>>
    /\ pc' = "scan"
    /\ UNCHANGED <<request, response, returns, service, decode_log, web>>

\* the line of this pass, after line = line.strip()
Line == Strip(lines[idx])

Scanning(b) ==
    /\ pc = "scan"
    /\ idx <= Len(lines)
    /\ Branch(Line, mode, current_keyword) = b

Advance ==
    /\ idx' = idx + 1
    /\ UNCHANGED <<request, response, lines, pc, returns, service, decode_log, web>>

\* if not line: continue
SkipBlank ==
    /\ Scanning("blank")
    /\ Advance
    /\ UNCHANGED locals

\* if line.startswith("**KEYWORDS IDENTIFIED:**"): mode = "keywords"
KeywordsMarker ==
    /\ Scanning("keywords_marker")
    /\ mode' = "keywords"
    /\ Advance
    /\ UNCHANGED <<keywords, structured_insights, current_keyword,
                   current_titles, current_insights>>

\* the keyword list also opening an empty entry for every keyword it names
KeywordList_SeedsInsights ==
    /\ Scanning("keyword_list")
    /\ keywords' = ParseKeywordLine(Line)
    /\ structured_insights' =
           [k \in (DOMAIN structured_insights)
                     \cup {keywords'[i] : i \in 1..Len(keywords')} |->
               IF k \in DOMAIN structured_insights
               THEN structured_insights[k]
               ELSE [titles |-> <<>>, insights |-> <<>>]]
    /\ mode' = "None"
    /\ Advance
    /\ UNCHANGED <<current_keyword, current_titles, current_insights>>

\* elif mode == "keywords" and not line.startswith("**")
KeywordList ==
    /\ Scanning("keyword_list")
    /\ keywords' = ParseKeywordLine(Line)
    /\ mode' = "None"
    /\ Advance
    /\ UNCHANGED <<structured_insights, current_keyword, current_titles,
                   current_insights>>

\* a header branch that also leaves the section of the previous block
KeywordHeader_ResetsMode ==
    /\ Scanning("keyword_header")
    /\ structured_insights' =
           BlockClose(structured_insights, current_keyword, current_titles,
                      current_insights)
    /\ current_keyword' = <<KeywordName(Line)>>
    /\ current_titles' = <<>>
    /\ current_insights' = <<>>
    /\ mode' = "None"
    /\ Advance
    /\ UNCHANGED keywords

\* elif line.startswith("**KEYWORD") and ":" in line
KeywordHeader ==
    /\ Scanning("keyword_header")
    /\ structured_insights' =
           BlockClose(structured_insights, current_keyword, current_titles,
                      current_insights)
    /\ current_keyword' = <<KeywordName(Line)>>
    /\ current_titles' = <<>>
    /\ current_insights' = <<>>
    /\ Advance
    /\ UNCHANGED <<keywords, mode>>

\* elif line.startswith("**INSIGHTS:**"): mode = "titles"
TitlesMarker ==
    /\ Scanning("titles_marker")
    /\ mode' = "titles"
    /\ Advance
    /\ UNCHANGED <<keywords, structured_insights, current_keyword,
                   current_titles, current_insights>>

\* elif line.startswith("**ACTIONS:**"): mode = "insights"
ActionsMarker ==
    /\ Scanning("actions_marker")
    /\ mode' = "insights"
    /\ Advance
    /\ UNCHANGED <<keywords, structured_insights, current_keyword,
                   current_titles, current_insights>>

\* elif mode == "titles" and current_keyword
TitleLine ==
    /\ Scanning("titles")
    /\ ~(IsItem(Line) /\ ItemFaults(Line))
    /\ current_titles' =
           IF IsItem(Line) /\ ItemContent(Line) # <<>>
           THEN Append(current_titles, ItemContent(Line))
           ELSE current_titles
    /\ Advance
    /\ UNCHANGED <<keywords, structured_insights, current_keyword, mode,
                   current_insights>>

\* current_insights[-1] += " " + line.strip()
Continue(details, line) ==
    [details EXCEPT ![Len(details)] = @ \o <<" ">> \o Strip(line)]

\* elif mode == "insights" and current_keyword
DetailLine ==
    /\ Scanning("insights")
    /\ ~(IsItem(Line) /\ ItemFaults(Line))
    /\ current_insights' =
           IF IsItem(Line)
           THEN IF ItemContent(Line) # <<>>
                THEN Append(current_insights, ItemContent(Line))
                ELSE current_insights
           ELSE IF current_insights # <<>> /\ ~StartsWith(Line, BOLD)
                THEN Continue(current_insights, Line)
                ELSE current_insights
    /\ Advance
    /\ UNCHANGED <<keywords, structured_insights, current_keyword, mode,
                   current_titles>>

\* no branch of the chain takes the line
Unclassified ==
    /\ Scanning("none")
    /\ Advance
    /\ UNCHANGED locals

\* line.split(".", 1)[1] raises IndexError; the except clause returns
ParseFault ==
    /\ pc = "scan"
    /\ idx <= Len(lines)
    /\ Branch(Line, mode, current_keyword) \in {"titles", "insights"}
    /\ IsItem(Line) /\ ItemFaults(Line)
    /\ caught' = "IndexError"
    /\ raised' = ~ParseExcept.returned
    /\ parsed_result' = IF ParseExcept.returned THEN ParseExcept.value ELSE parsed_result
    /\ pc' = "parsed"
    /\ UNCHANGED <<request, response, lines, idx, locals, result, service, decode_log, web>>

\* after the loop: the final block close and the return
ParseReturn ==
    /\ pc = "scan"
    /\ idx > Len(lines)
    /\ structured_insights' =
           BlockClose(structured_insights, current_keyword, current_titles,
                      current_insights)
    /\ parsed_result' = [keywords |-> keywords,
                         structured_insights |-> structured_insights']
    /\ pc' = "parsed"
    /\ UNCHANGED <<request, response, lines, idx, keywords, current_keyword, mode,
                   current_titles, current_insights, caught, raised, result>>
    /\ UNCHANGED <<service, decode_log, web>>

\* the dict "error": value built from an optional dict entry: d.get(k, default)
Get(d, k, default) == IF k \in DOMAIN d THEN d[k] ELSE default

\* analyze_question's return after _parse_response, or its own except clause
AnalyzeReturn ==
    /\ pc = "parsed"
    /\ result' =
           IF raised
           THEN IF request.fn = "analyze_question"
                THEN [keywords |-> <<>>, insights |-> EmptyMap,
                      error |-> "Analysis failed"]
                ELSE [error |-> "Text analysis failed"]
           ELSE IF request.fn = "analyze_question"
           THEN [keywords |-> Get(parsed_result, "keywords", <<>>),
                 insights |-> Get(parsed_result, "structured_insights", EmptyMap),
                 analysis_id |-> AnalysisId(request),
                 error |-> "None"]
           ELSE [keywords |-> Get(parsed_result, "keywords", <<>>),
                 insights |-> Get(parsed_result, "structured_insights", EmptyMap),
                 error |-> "None"]
    /\ pc' = "done"
    /\ UNCHANGED <<request, response, lines, idx, locals, parsed_result, caught, raised>>
    /\ UNCHANGED <<service, decode_log, web>>

Next ==
    \/ AnalyzeEntry
    \/ CallClaudeTest
    \/ CallClaudeCached
    \/ CallClaudeInvokes
    \/ CallClaudeStores
    \/ CallClaudeFails
    \/ OtherThreadStores
    \/ ErrorReturn
    \/ ParseStart
    \/ SkipBlank
    \/ KeywordsMarker
    \/ KeywordList
    \/ KeywordHeader
    \/ TitlesMarker
    \/ ActionsMarker
    \/ TitleLine
    \/ DetailLine
    \/ Unclassified
    \/ ParseFault
    \/ ParseReturn
    \/ AnalyzeReturn

Spec == Init /\ [][Next]_vars

(***************************************************************************)
(* SpecCache: the request threads of the web application call _call_claude *)
(* on the one BusinessAnalyzer that src/app.py creates.  Nothing in        *)
(* _call_claude is atomic: a thread can be preempted between the cache     *)
(* test, the cache read, the service call and the cache write.             *)
(***************************************************************************)
InitCache ==
    /\ pc = "idle"
    /\ request = NoRequest
    /\ response = <<>>
    /\ ParserInit
    /\ response_cache = EmptyMap
    /\ bedrock = [texts |-> CacheTexts, may_fail |-> TRUE]
    /\ invocations = 0
    /\ call_exc = "None"
    /\ th = [t \in Threads |-> Idle]
    /\ RepeatUnused
    /\ WebUnused

\* the hash of the prompt that thread t called with
HashOf(t) == PromptHash(th[t].prompt)

\* a request thread calls self._call_claude(prompt)
Enter(t) ==
    /\ th[t].pc = "idle"
    /\ th[t].calls < MaxCalls
    /\ \E p \in Prompts \cup {BAD_PROMPT} :
           th' = [th EXCEPT ![t] = [pc |-> "check", prompt |-> p, text |-> <<>>,
                                    ret |-> <<>>, exc |-> "None",
                                    calls |-> th[t].calls + 1]]
    /\ UNCHANGED <<parser, response_cache, bedrock, invocations, call_exc,
                   decode_log, web>>

\* if prompt_hash in self._response_cache:
CacheTest(t) ==
    /\ th[t].pc = "check"
    /\ Encodable(th[t].prompt)
    /\ th' = [th EXCEPT ![t].pc =
                 IF Cached(response_cache, HashOf(t)) THEN "read" ELSE "invoke"]
    /\ UNCHANGED <<parser, response_cache, bedrock, invocations, call_exc,
                   decode_log, web>>

\* return self._response_cache[prompt_hash]
CacheRead(t) ==
    /\ th[t].pc = "read"
    /\ th' = [th EXCEPT ![t].pc = "idle", ![t].ret = response_cache[HashOf(t)]]
    /\ UNCHANGED <<parser, response_cache, bedrock, invocations, call_exc,
                   decode_log, web>>

\* response = bedrock.invoke_model(...); response_text = result["content"][0]["text"]
InvokeModel(t) ==
    /\ th[t].pc = "invoke"
    /\ \E text \in bedrock.texts :
           th' = [th EXCEPT ![t].pc = "store", ![t].text = text]
    /\ invocations' = invocations + 1
    /\ UNCHANGED <<parser, response_cache, bedrock, call_exc, decode_log, web>>

\* prompt.encode() raises before the cache test, on a prompt that is not
\* encoded: except Exception as e: return f"Error calling Claude: ..."
EncodeRaises(t) ==
    /\ th[t].pc = "check"
    /\ ~Encodable(th[t].prompt)
    /\ th' = [th EXCEPT ![t].pc = "idle", ![t].exc = "Exception",
                        ![t].ret = CALL_ERROR]
    /\ UNCHANGED <<parser, response_cache, bedrock, invocations, call_exc,
                   decode_log, web>>

\* after the cache test the try block raises, in boto3.client before the
\* service is called or in invoke_model and the reading of its answer after
\* it was called: except Exception as e: return f"Error calling Claude: ..."
InvokeRaises(t) ==
    /\ th[t].pc = "invoke"
    /\ bedrock.may_fail
    /\ th' = [th EXCEPT ![t].pc = "idle", ![t].exc = "Exception",
                        ![t].ret = CALL_ERROR]
    /\ \E called \in BOOLEAN :
           invocations' = IF called THEN invocations + 1 ELSE invocations
    /\ UNCHANGED <<parser, response_cache, bedrock, call_exc, decode_log, web>>

\* self._response_cache[prompt_hash] = response_text; return response_text
StoreReturn(t) ==
    /\ th[t].pc = "store"
    /\ response_cache' = CacheStore(response_cache, HashOf(t), th[t].text)
    /\ th' = [th EXCEPT ![t].pc = "idle", ![t].ret = th[t].text]
    /\ UNCHANGED <<parser, bedrock, invocations, call_exc, decode_log, web>>

NextCache ==
    \E t \in Threads :
        \/ Enter(t)
        \/ CacheTest(t)
        \/ CacheRead(t)
        \/ InvokeModel(t)
        \/ EncodeRaises(t)
        \/ InvokeRaises(t)
        \/ StoreReturn(t)

SpecCache == InitCache /\ [][NextCache]_vars

(***************************************************************************)
(* SpecRepeat: one analyzer serves one analyze_question request after      *)
(* another.  Each response comes from _call_claude, from the service or    *)
(* from the cache, and the variables of a decode keep the values that the  *)
(* previous decode left until the code assigns them.                       *)
(***************************************************************************)
\* the answers of the service: between them they take every branch of the scan
RepeatTexts ==
    {Join(P_DETAILS, "\n"),
     Join(<<L_CONT, L_BLANK, L_HDR_B, L_ACT, L_NUM>>, "\n"),
     Join(P_TITLES \o <<L_DIGIT>>, "\n"),
     ERROR_TEXT}

\* the requests: one of the questions "q" and "q2"
RepeatRequests ==
    {[fn |-> "analyze_question", arg |-> q] : q \in {"str:q", "str:q2"}}

InitRepeat ==
    /\ pc = "entry"
    /\ request \in RepeatRequests
    /\ response = <<>>
    /\ ParserInit
    /\ response_cache = EmptyMap
    /\ bedrock = [texts |-> RepeatTexts, may_fail |-> TRUE]
    /\ invocations = 0
    /\ call_exc = "None"
    /\ th = [t \in Threads |-> Idle]
    /\ decode_log = <<>>
    /\ WebUnused

\* analyze_question has returned; the analyzer is called with the next request
DecodeAgain ==
    /\ pc = "done"
    /\ Len(decode_log) < MaxDecodes
    /\ decode_log' = Append(decode_log,
                            [text |-> response, keywords |-> result.keywords,
                             insights |-> result.insights])
    /\ request' \in RepeatRequests
    /\ response' = <<>>
    /\ parsed_result' = NoResult
    /\ caught' = "None"
    /\ raised' = FALSE
    /\ result' = NoResult
    /\ call_exc' = "None"
    /\ pc' = "entry"
    /\ UNCHANGED <<lines, idx, locals, response_cache, bedrock, invocations, th, web>>

NextRepeat ==
    \/ AnalyzeEntry
    \/ CallClaudeTest
    \/ CallClaudeCached
    \/ CallClaudeInvokes
    \/ CallClaudeStores
    \/ CallClaudeFails
    \/ ErrorReturn
    \/ ParseStart
    \/ SkipBlank
    \/ KeywordsMarker
    \/ KeywordList
    \/ KeywordHeader
    \/ TitlesMarker
    \/ ActionsMarker
    \/ TitleLine
    \/ DetailLine
    \/ Unclassified
    \/ ParseFault
    \/ ParseReturn
    \/ AnalyzeReturn
    \/ DecodeAgain

SpecRepeat == InitRepeat /\ [][NextRepeat]_vars

(***************************************************************************)
(* SpecUsage: the routes of src/app.py that log a user in and out and the  *)
(* /api/bi/analyze-* endpoints, for one user whose requests come one after *)
(* the other.  A request is one action, from the login_required wrapper to *)
(* the reply, except an analysis: there the analyzer runs its own steps    *)
(* between the handler's checks and the reply.                             *)
(***************************************************************************)
\* "summaries_per_month": "unlimited"
UNLIMITED == -1

\* plans[plan_type]["summaries_per_month"]
Plans == {"basic", "pro", "onetime", "starter", "premium"}

\* the plan types that update_user_subscription is called with: the keys of
\* plans and a name that is no key
PlanTypes == Plans \cup {"gold"}

\* plans.get(plan_type, plans["basic"])["summaries_per_month"]
SummariesPerMonth(plan) ==
    CASE plan = "basic" -> 5
      [] plan = "pro" -> UNLIMITED
      [] plan = "onetime" -> 3
      [] plan = "starter" -> 10
      [] plan = "premium" -> UNLIMITED
      [] OTHER -> 5

\* the record that update_user_subscription writes
Subscription(plan) ==
    [subscription_type |-> plan,
     usage_limits |-> [summaries_per_month |-> SummariesPerMonth(plan)],
     current_usage |-> [summaries_this_month |-> 0]]

\* check_usage_limits(email, "summary"): can_use
CanUse(info) ==
    IF info = <<>>
    THEN FALSE
    ELSE LET limit == Get(info[1].usage_limits, "summaries_per_month", 0)
             current == Get(info[1].current_usage, "summaries_this_month", 0)
         IN  ~(limit # UNLIMITED /\ current >= limit)

\* is_logged_in()
IsLoggedIn(sess) == "user_email" \in DOMAIN sess

\* the four endpoints and the analyzer method each one calls
Endpoints == {"analyze-question", "analyze-text", "analyze-url", "analyze-file"}

Method(e) ==
    CASE e = "analyze-question" -> "analyze_question"
      [] e = "analyze-text" -> "analyze_text"
      [] e = "analyze-url" -> "analyze_url"
      [] e = "analyze-file" -> "analyze_file"

Route(fn) == CHOOSE e \in Endpoints : Method(e) = fn

\* a request without a JSON body: request.get_json() gives no dict
NO_JSON == "nojson"

\* the request bodies: the value of the required field (None when the field
\* is missing), or no JSON body; for analyze-file the upload (a named file, no
\* file, a file with an empty filename)
Bodies(e) ==
    CASE e = "analyze-question" -> QuestionValues \cup {NO_JSON}
      [] e = "analyze-text" ->
            {"str:some text", "str:", "None", "int:0", "int:5", NO_JSON}
      [] e = "analyze-url" -> {"str:http://x", "str:", "None", "int:0", NO_JSON}
      [] e = "analyze-file" -> {"file", "nofile", "noname"}

\* the handler answers 500: data.get on no dict raises
BodyRaises(e, body) == e # "analyze-file" /\ body = NO_JSON

\* the handler answers 400: if not question / text / url; 'file' not in
\* request.files, file.filename == ''
BodyRejected(e, body) ==
    IF e = "analyze-file" THEN body \in {"nofile", "noname"} ELSE Falsy(body)

\* what the analyzer is called with: the question or text of the body, or
\* what the url or file of the body turns out to be when it is fetched
HandlerArgs(e, body) ==
    CASE e \in {"analyze-question", "analyze-text"} -> {body}
      [] e = "analyze-url" -> Args("analyze_url")
      [] e = "analyze-file" -> Args("analyze_file")

\* get_user_info(email): the record of the user, or None when there is none
\* or the read of the database raises
GetUserInfo(info) == {info, <<>>}

\* the answers of the service to the requests of the endpoints: between them
\* they take every branch of the scan
UsageTexts ==
    {Join(<<L_CONT>> \o P_DETAILS \o <<L_BLANK, L_HDR_B, L_ACT, L_NUM>>, "\n"),
     Join(P_TITLES \o <<L_DIGIT>>, "\n"),
     ERROR_TEXT}

InitUsage ==
    /\ pc = "idle"
    /\ request = NoRequest
    /\ response = <<>>
    /\ ParserInit
    /\ response_cache = EmptyMap
    /\ bedrock = [texts |-> UsageTexts, may_fail |-> TRUE]
    /\ invocations = 0
    /\ call_exc = "None"
    /\ th = [t \in Threads |-> Idle]
    /\ RepeatUnused
    /\ user_info \in {<<>>} \cup {<<Subscription(p)>> : p \in PlanTypes}
    /\ session = EmptyMap
    /\ reply = NoReply
    /\ served = 0

\* the credentials of a login request; with no JSON body data.get raises
Emails == {"", "u"}

Passwords == {"", "pw"}

\* a login that stores the email before it looks at the credentials
ApiLogin_StoresFirst ==
    /\ pc = "idle"
    /\ \E json \in BOOLEAN, email \in Emails, password \in Passwords :
           /\ session' = IF json THEN Put(session, "user_email", email) ELSE session
           /\ reply' = [route |-> "login",
                        status |-> IF ~json THEN 500
                                   ELSE IF email # "" /\ password # "" THEN 200
                                   ELSE 401,
                        analyzed |-> FALSE]
    /\ UNCHANGED <<parser, service, decode_log, user_info, served>>

\* POST /api/login
ApiLogin ==
    /\ pc = "idle"
    /\ \E json \in BOOLEAN, email \in Emails, password \in Passwords :
           IF ~json
           THEN /\ session' = session
                /\ reply' = [route |-> "login", status |-> 500, analyzed |-> FALSE]
           ELSE IF email # "" /\ password # ""
           THEN /\ session' = Put(session, "user_email", email)
                /\ reply' = [route |-> "login", status |-> 200, analyzed |-> FALSE]
           ELSE /\ session' = session
                /\ reply' = [route |-> "login", status |-> 401, analyzed |-> FALSE]
    /\ UNCHANGED <<parser, service, decode_log, user_info, served>>

\* POST /api/logout
ApiLogout ==
    /\ pc = "idle"
    /\ session' = EmptyMap
    /\ reply' = [route |-> "logout", status |-> 200, analyzed |-> FALSE]
    /\ UNCHANGED <<parser, service, decode_log, user_info, served>>

\* GET /tools
Tools ==
    /\ pc = "idle"
    /\ reply' = [route |-> "tools",
                 status |-> IF IsLoggedIn(session) THEN 200 ELSE 302,
                 analyzed |-> FALSE]
    /\ UNCHANGED <<parser, service, decode_log, user_info, session, served>>

\* the pages wrapped by login_required: GET /bi-analyzer, GET /legal-docs
Pages == {"bi-analyzer", "legal-docs"}

ProtectedPage ==
    /\ pc = "idle"
    /\ \E page \in Pages :
           reply' = [route |-> page,
                     status |-> IF IsLoggedIn(session) THEN 200 ELSE 302,
                     analyzed |-> FALSE]
    /\ UNCHANGED <<parser, service, decode_log, user_info, session, served>>

\* POST /api/bi/analyze-*, up to the call of the analyzer: login_required,
\* check_usage_limits, the body; then bi_analyzer.analyze_*(...) is entered
Analyze ==
    /\ pc = "idle"
    /\ served < MaxServed
    /\ \E e \in Endpoints :
           IF ~IsLoggedIn(session)
           THEN /\ reply' = [route |-> e, status |-> 302, analyzed |-> FALSE]
                /\ UNCHANGED <<parser, call_exc>>
           ELSE \E info \in GetUserInfo(user_info) :
                IF ~CanUse(info)
                THEN /\ reply' = [route |-> e, status |-> 429, analyzed |-> FALSE]
                     /\ UNCHANGED <<parser, call_exc>>
                ELSE \E body \in Bodies(e) :
                     IF BodyRaises(e, body)
                     THEN /\ reply' = [route |-> e, status |-> 500,
                                       analyzed |-> FALSE]
                          /\ UNCHANGED <<parser, call_exc>>
                     ELSE IF BodyRejected(e, body)
                     THEN /\ reply' = [route |-> e, status |-> 400,
                                       analyzed |-> FALSE]
                          /\ UNCHANGED <<parser, call_exc>>
                     ELSE /\ invocations < MaxCalls
                          /\ \E a \in HandlerArgs(e, body) :
                                 request' = [fn |-> Method(e), arg |-> a]
                          /\ reply' = NoReply
                          /\ pc' = "entry"
                          /\ UNCHANGED <<response, lines, idx, locals, returns,
                                         call_exc>>
    /\ UNCHANGED <<response_cache, bedrock, invocations, th, decode_log,
                   user_info, session, served>>

\* the analyzer has returned: return jsonify(result); the handlers write
\* nothing to the user's record ("Increment usage count here": pass)
\* The locals of the calls that have returned are gone.
AnalyzeReply ==
    /\ pc = "done"
    /\ reply' = [route |-> Route(request.fn), status |-> 200, analyzed |-> TRUE]
    /\ served' = IF result.error = "None" THEN served + 1 ELSE served
    /\ pc' = "idle"
    /\ request' = NoRequest
    /\ response' = <<>>
    /\ lines' = <<>>
    /\ idx' = 1
    /\ keywords' = <<>>
    /\ structured_insights' = EmptyMap
    /\ current_keyword' = <<>>
    /\ mode' = "None"
    /\ current_titles' = <<>>
    /\ current_insights' = <<>>
    /\ parsed_result' = NoResult
    /\ caught' = "None"
    /\ raised' = FALSE
    /\ result' = NoResult
    /\ call_exc' = "None"
    /\ UNCHANGED <<response_cache, bedrock, invocations, th, decode_log,
                   user_info, session>>

\* update_user_subscription(email, plan_type): the only write of current_usage
UpdateUserSubscription ==
    /\ pc = "idle"
    /\ \E plan \in PlanTypes : user_info' = <<Subscription(plan)>>
    /\ served' = 0
    /\ UNCHANGED <<parser, service, decode_log, session, reply>>

NextUsage ==
    \/ ApiLogin
    \/ ApiLogout
    \/ Tools
    \/ ProtectedPage
    \/ Analyze
    \/ AnalyzeEntry
    \/ CallClaudeTest
    \/ CallClaudeCached
    \/ CallClaudeInvokes
    \/ CallClaudeStores
    \/ CallClaudeFails
    \/ ErrorReturn
    \/ ParseStart
    \/ SkipBlank
    \/ KeywordsMarker
    \/ KeywordList
    \/ KeywordHeader
    \/ TitlesMarker
    \/ ActionsMarker
    \/ TitleLine
    \/ DetailLine
    \/ Unclassified
    \/ ParseFault
    \/ ParseReturn
    \/ AnalyzeReturn
    \/ AnalyzeReply
    \/ UpdateUserSubscription

SpecUsage == InitUsage /\ [][NextUsage]_vars

(***************************************************************************)
(* Properties.                                                             *)
(***************************************************************************)
\* the loop is about to read a line
AtLine == pc = "scan" /\ idx <= Len(lines)

\* the loop is about to close a block: at a keyword header, or after the last line
Closing ==
    /\ pc = "scan"
    /\ \/ idx > Len(lines)
       \/ Branch(Line, mode, current_keyword) = "keyword_header"

\* C1: for every input string (empty, without markers, or with a titles/details
\* line that begins with a digit and has no period) _parse_response returns a
\* record with keywords and structured_insights and raises nothing.
C1_DecodeReturnsRecord ==
    pc = "parsed" =>
        /\ ~raised
        /\ DOMAIN parsed_result = {"keywords", "structured_insights"}

\* the IndexError of a digit line without a period was caught and a record returned
C1_Witness ==
    /\ pc = "parsed"
    /\ caught = "IndexError"
    /\ ~raised
    /\ DOMAIN parsed_result = {"keywords", "structured_insights"}

\* what a well-formed text declares
WFKeywords(n) == [i \in 1..n |-> KwName(i)]

WFInsights(n, t, d) ==
    [k \in {KwName(i) : i \in 1..n} |->
        LET i == CHOOSE x \in 1..n : KwName(x) = k IN
        [titles |-> [j \in 1..t |-> WFTitle(i, j)],
         insights |-> [j \in 1..d |-> WFDetail(i, j)]]]

\* every well-formed text of the model, with its parameters
WFTexts ==
    {[n |-> p[1], t |-> p[2], d |-> p[3],
      text |-> Join(WellFormed(p[1], p[2], p[3]), "\n")] : p \in WFParams}

\* C2: for every well-formed text of n keywords with t titles and d details
\* each, analyze_question returns the n keywords in declared order and insights
\* with exactly those n keys, each holding its own t titles and d details in
\* source order, and no error.
C2_WellFormedDecoded ==
    pc = "done" =>
        \A w \in WFTexts :
            response = w.text =>
                /\ result.keywords = WFKeywords(w.n)
                /\ result.insights = WFInsights(w.n, w.t, w.d)
                /\ DOMAIN result.insights = {KwName(i) : i \in 1..w.n}
                /\ result.error = "None"

\* the spec's case: 5 keywords, 3 titles and 3 details each, decoded
C2_Witness ==
    /\ pc = "done"
    /\ response = Join(WellFormed(5, 3, 3), "\n")
    /\ Len(result.keywords) = 5
    /\ Cardinality(DOMAIN result.insights) = 5
    /\ \A k \in DOMAIN result.insights :
           Len(result.insights[k].titles) = 3 /\ Len(result.insights[k].insights) = 3

\* a numbered item in the sense of the specification: digits, then a period
RECURSIVE NumberedLine(_)
NumberedLine(s) ==
    /\ Len(s) >= 2
    /\ IsDigit(s[1])
    /\ (s[2] = "." \/ NumberedLine(Tail(s)))

\* the loop is about to read a non-empty line in details mode with a keyword set
DetailsModeLine ==
    /\ AtLine
    /\ Line # <<>>
    /\ mode = "insights"
    /\ Truthy(current_keyword)

\* a line that is neither a numbered item, nor a dash bullet, nor bold
PlainLine ==
    /\ ~NumberedLine(Line)
    /\ ~StartsWith(Line, DASH)
    /\ ~StartsWith(Line, BOLD)

\* C3: in details mode with a keyword set and at least one detail collected, a
\* non-empty line that is neither a numbered nor a dash-bulleted item nor bold
\* is appended to the last detail after exactly one space, and the number of
\* details stays the same.
C3_ContinuationAppended ==
    [][(DetailsModeLine /\ PlainLine /\ current_insights # <<>>) =>
          /\ Len(current_insights') = Len(current_insights)
          /\ current_insights'[Len(current_insights)] =
                 current_insights[Len(current_insights)] \o <<" ">> \o Line
          /\ \A i \in 1..(Len(current_insights) - 1) :
                 current_insights'[i] = current_insights[i]]_vars

\* C4 as stated: when a block closes under a keyword that already has an entry,
\* the entry becomes the titles and details of the closing block, whatever
\* they are.
C4_LaterBlockReplaces ==
    [][(Closing /\ Truthy(current_keyword)
            /\ current_keyword[1] \in DOMAIN structured_insights) =>
          structured_insights'[current_keyword[1]] =
              [titles |-> current_titles, insights |-> current_insights]]_vars

\* C4 (amended): when a block closes under a keyword that already has an entry,
\* the entry becomes exactly the titles and details of the closing block if the
\* closing block collected at least one title or detail, and nothing of the
\* earlier block remains; a closing block that collected nothing leaves the
\* earlier entry as it is.
C4_NonEmptyLaterBlockReplaces ==
    [][(Closing /\ Truthy(current_keyword)
            /\ current_keyword[1] \in DOMAIN structured_insights) =>
          structured_insights'[current_keyword[1]] =
              IF current_titles # <<>> \/ current_insights # <<>>
              THEN [titles |-> current_titles, insights |-> current_insights]
              ELSE structured_insights[current_keyword[1]]]_vars

\* a second block A with one detail replaced the first block A, which had one
\* title and one detail
C4_Witness ==
    /\ pc = "done"
    /\ response = Join(P_DETAILS \o <<L_HDR_A, L_NUM>>, "\n")
    /\ result.insights[<<"A">>] = [titles |-> <<>>, insights |-> <<<<"x">>>>]

\* the pieces of a keyword line: split on commas once the brackets are taken
\* out, trimmed, the empty ones left out, in source order
KeywordPieces(line) ==
    LET raw == Split(SelectSeq(line, LAMBDA c : c \notin {"[", "]"}), ",")
        kept == SelectSeq(raw, LAMBDA piece : Strip(piece) # <<>>)
    IN  [i \in 1..Len(kept) |-> Strip(kept[i])]

\* C5: in keywords mode the first non-blank line that does not start with the
\* bold prefix sets keywords to its comma-separated pieces in source order,
\* trimmed, empty pieces dropped, repeated keywords kept, and resets mode.
C5_KeywordListDecoded ==
    [][(AtLine /\ mode = "keywords" /\ Line # <<>> /\ ~StartsWith(Line, BOLD)) =>
          /\ keywords' = KeywordPieces(Line)
          /\ mode' = "None"
          /\ pc' = "scan"]_vars

\* the line " B ,, A,B" was decoded: trimmed, the empty piece dropped, B twice
C5_Witness ==
    /\ pc = "scan"
    /\ idx > 1
    /\ Strip(lines[idx - 1]) = Strip(L_LISTDUP)
    /\ keywords = << <<"B">>, <<"A">>, <<"B">> >>
    /\ mode = "None"

\* C6: in details mode with a keyword set and no detail collected yet, a line
\* that is neither a numbered nor a dash-bulleted item nor bold is discarded:
\* no detail is created and no stored block changes.
C6_EarlyContinuationDropped ==
    [][(DetailsModeLine /\ PlainLine /\ current_insights = <<>>) =>
          /\ current_insights' = <<>>
          /\ structured_insights' = structured_insights]_vars

\* C7: after a fault in the scan, _parse_response returns empty keywords, empty
\* insights and error = "parse failed", and analyze_question's result carries a
\* non-null error.
C7_FaultReported ==
    (pc = "done" /\ caught # "None") =>
        /\ parsed_result.keywords = <<>>
        /\ parsed_result.structured_insights = EmptyMap
        /\ "error" \in DOMAIN parsed_result
        /\ parsed_result.error = "parse failed"
        /\ result.error # "None"

\* C8: what was collected from the lines before a malformed line is still in
\* the returned result: the keywords, and every block stored so far.
C8_PartialResultKept ==
    (pc = "done" /\ caught # "None") =>
        /\ result.keywords = keywords
        /\ \A k \in DOMAIN structured_insights :
               /\ k \in DOMAIN result.insights
               /\ result.insights[k] = structured_insights[k]

\* C9: the keywords of every returned result are at most 5.
C9_AtMostFiveKeywords ==
    pc = "done" => Len(Get(result, "keywords", <<>>)) <= 5

\* every entry of a mapping has a title or a detail
EntriesNonEmpty(insights) ==
    \A k \in DOMAIN insights :
        insights[k].titles # <<>> \/ insights[k].insights # <<>>

\* C10: the mapping changes only at a block close with a keyword set and a
\* non-empty accumulator, so every entry of the mapping, and of every returned
\* result, has a title or a detail; a header followed by no items writes
\* nothing.
C10_OnlyNonEmptyBlocksStored ==
    [][/\ structured_insights' # structured_insights =>
             /\ Closing
             /\ Truthy(current_keyword)
             /\ current_titles # <<>> \/ current_insights # <<>>
       /\ EntriesNonEmpty(structured_insights')
       /\ pc' = "done" => EntriesNonEmpty(Get(result', "insights", EmptyMap))]_vars

\* the text ended in a block with a keyword and no items, and the keyword has
\* no entry in the result
C10_Witness ==
    /\ pc = "done"
    /\ caught = "None"
    /\ Truthy(current_keyword)
    /\ current_titles = <<>>
    /\ current_insights = <<>>
    /\ current_keyword[1] \notin DOMAIN result.insights
    /\ result.error = "None"

\* C11: in titles or details mode a line is a numbered item only if it starts
\* with digits followed by a period; a line whose first character is a digit
\* but which is no such numbering adds no item, and in details mode it
\* continues the last detail (or is dropped when there is none).
C11_DigitLineIsContinuation ==
    [][(AtLine /\ Line # <<>> /\ mode \in {"titles", "insights"}
            /\ Truthy(current_keyword)
            /\ IsDigit(Line[1]) /\ ~NumberedLine(Line)) =>
          /\ pc' = "scan"
          /\ current_titles' = current_titles
          /\ current_insights' =
                 IF mode = "insights" /\ current_insights # <<>>
                 THEN [current_insights EXCEPT ![Len(current_insights)] =
                          @ \o <<" ">> \o Line]
                 ELSE current_insights]_vars

\* the loop is about to read the keyword list
AtKeywordList ==
    AtLine /\ mode = "keywords" /\ Line # <<>> /\ ~StartsWith(Line, BOLD)

Brackets == {"[", "]"}

\* C12 as stated: the brackets enclosing the list are stripped before the split,
\* and a bracket inside a keyword token stays in the token.
C12_EmbeddedBracketsKept ==
    [][AtKeywordList =>
          keywords' =
              LET raw == Split(EnclosingStripped(Line), ",")
                  kept == SelectSeq(raw, LAMBDA piece : Strip(piece) # <<>>)
              IN  [i \in 1..Len(kept) |-> Strip(kept[i])]]_vars

\* a comma-separated piece with every bracket taken out, then trimmed
CleanPiece(piece) == Strip(SelectSeq(piece, LAMBDA c : c \notin Brackets))

\* C12 (amended): every bracket character of the keyword-list line, enclosing
\* the list or inside a keyword token, is removed before the pieces are trimmed:
\* each keyword is a comma-separated piece of the line without its brackets,
\* and no keyword holds a bracket.
C12_AllBracketsStripped ==
    [][AtKeywordList =>
          /\ keywords' =
                 LET raw == Split(Line, ",")
                     kept == SelectSeq(raw, LAMBDA piece : CleanPiece(piece) # <<>>)
                 IN  [i \in 1..Len(kept) |-> CleanPiece(kept[i])]
          /\ \A i \in 1..Len(keywords') :
                 \A j \in 1..Len(keywords'[i]) : keywords'[i][j] \notin Brackets]_vars

\* the line "[A[x], B]" was decoded to the keywords Ax and B
C12_Witness ==
    /\ pc = "scan"
    /\ idx > 1
    /\ Strip(lines[idx - 1]) = L_LISTBR
    /\ mode = "None"
    /\ keywords = << <<"A", "x">>, <<"B">> >>

\* the parser's state between two lines is left as it was
LocalsKept ==
    /\ keywords' = keywords
    /\ structured_insights' = structured_insights
    /\ current_keyword' = current_keyword
    /\ mode' = mode
    /\ current_titles' = current_titles
    /\ current_insights' = current_insights

\* C13: a numbered or dash-bulleted line read while mode is None, or while
\* mode is titles or details and no keyword is set, changes nothing: keywords,
\* current keyword, mode, both accumulators and the mapping stay as they are.
C13_ItemOutsideBlockIgnored ==
    [][(AtLine /\ Line # <<>>
            /\ (IsDigit(Line[1]) \/ StartsWith(Line, DASH))
            /\ \/ mode = "None"
               \/ mode \in {"titles", "insights"} /\ ~Truthy(current_keyword)) =>
          (LocalsKept /\ pc' = "scan" /\ idx' = idx + 1)]_vars

\* the item "1. x" was read in titles mode before any keyword header, and the
\* text ended with nothing collected
C13_Witness ==
    /\ pc = "done"
    /\ response = Join(<<L_INS, L_NUM>>, "\n")
    /\ mode = "titles"
    /\ current_keyword = <<>>
    /\ current_titles = <<>>
    /\ result.insights = EmptyMap
    /\ result.error = "None"

\* C14: a line that starts with the keyword-header prefix and has no colon is
\* no header in any mode: it closes no block, leaves current keyword, mode and
\* both accumulators as they are and is not taken as the keyword list, so the
\* items after it go to the keyword that was open before it.
C14_HeaderWithoutColonIgnored ==
    [][(AtLine /\ StartsWith(Line, KEYWORD_PREFIX) /\ ~Contains(Line, ":")) =>
          (LocalsKept /\ pc' = "scan" /\ idx' = idx + 1)]_vars

\* after "**KEYWORD 3 C**" the item "1. x" became the second title of keyword A
C14_Witness ==
    /\ pc = "done"
    /\ response = Join(P_TITLES \o <<L_HDR_NOCOLON, L_NUM>>, "\n")
    /\ DOMAIN result.insights = {<<"A">>}
    /\ result.insights[<<"A">>].titles = << <<"x">>, <<"x">> >>

\* a stripped line that the parser takes as a keyword header
IsHeaderLine(line) ==
    /\ StartsWith(line, KEYWORD_PREFIX)
    /\ Contains(line, ":")
    /\ ~StartsWith(line, KEYWORDS_MARKER)

\* the keyword names that the header lines of the text declare
HeaderNames ==
    {KeywordName(Strip(lines[i])) :
        i \in {j \in 1..Len(lines) : IsHeaderLine(Strip(lines[j]))}}

\* the keywords that the result lists
Listed == {result.keywords[i] : i \in 1..Len(result.keywords)}

\* C15: the keys of insights come from the keyword-header blocks only: every key
\* is the name of a header line and holds a title or a detail, a listed
\* keyword that no header names has no entry, and the last block, if it has a title or a detail, has its entry
\* whether or not its keyword is listed; no error is reported.
C15_KeysFromBlocksOnly ==
    (pc = "done" /\ caught = "None" /\ lines # <<>>) =>
        /\ DOMAIN result.insights \subseteq HeaderNames
        /\ EntriesNonEmpty(result.insights)
        /\ \A k \in Listed \ HeaderNames : k \notin DOMAIN result.insights
        /\ (Truthy(current_keyword)
               /\ (current_titles # <<>> \/ current_insights # <<>>)) =>
              current_keyword[1] \in DOMAIN result.insights
        /\ result.error = "None"

\* keywords Ax and B are listed; block A, which is not listed, has an entry, and
\* B, which is listed and has an empty block, has none
C15_Witness ==
    /\ pc = "done"
    /\ response = Join(P_CLOSED \o <<L_KW, L_LISTBR>>, "\n")
    /\ result.keywords = << <<"A", "x">>, <<"B">> >>
    /\ DOMAIN result.insights = {<<"A">>}
    /\ result.error = "None"

\* C18: when the generation-service call fails inside _call_claude, nothing is
\* written to the cache and the analysis returns a result whose error field is
\* not None, never a success result built by decoding the error string.
C18_ServiceFailureReported ==
    /\ [][call_exc' # call_exc => response_cache' = response_cache]_vars
    /\ []((pc = "done" /\ call_exc # "None") => result.error # "None")

\* thread t has returned from a call of _call_claude
Returned(t) == th[t].pc = "idle" /\ th[t].calls > 0

\* C16: the cache is keyed by prompt hash, one entry per hash; an entry once
\* written is never removed; a call that finds its prompt hash cached goes on
\* to return the cached text, and neither step invokes the service.
C16_CacheKeptAndUsed ==
    [][/\ DOMAIN response_cache \subseteq DOMAIN response_cache'
       /\ DOMAIN response_cache' \subseteq {PromptHash(p) : p \in Prompts}
       /\ \A t \in Threads :
             /\ (th[t].pc = "check" /\ th'[t] # th[t]
                    /\ Cached(response_cache, HashOf(t))) =>
                   /\ th'[t].pc = "read"
                   /\ invocations' = invocations
             /\ (th[t].pc = "read" /\ th'[t] # th[t]) =>
                   /\ Cached(response_cache, HashOf(t))
                   /\ th'[t].ret = response_cache[HashOf(t)]
                   /\ th'[t].pc = "idle"
                   /\ invocations' = invocations]_vars

\* each thread has made one call with prompt p1 and returned without an
\* exception, and the service was invoked once: one thread missed, invoked and
\* stored, the other found the hash cached and returned the cached text
\* through the read of line 111 without invoking
C16_Witness ==
    /\ DOMAIN response_cache = {"h1"}
    /\ invocations = 1
    /\ \A t \in Threads :
           /\ Returned(t)
           /\ th[t].calls = 1
           /\ th[t].prompt = "p1"
           /\ th[t].exc = "None"
           /\ th[t].ret = response_cache["h1"]

\* C19: when two threads call _call_claude with the same prompt, the cached
\* value, once written, is never overwritten with a different text, and both
\* callers return the text that is cached.
C19_CacheWrittenOnce ==
    /\ [][\A h \in DOMAIN response_cache :
             response_cache'[h] = response_cache[h]]_vars
    /\ [](\A t \in Threads :
             (Returned(t) /\ th[t].exc = "None") =>
                 th[t].ret = response_cache[HashOf(t)])

\* the earlier decodes of the text that has just been decoded
EarlierSame == {i \in 1..Len(decode_log) : decode_log[i].text = response}

\* C17: decoding keeps no state between calls: a decode of a text returns the
\* keywords and insights that every earlier decode of the same text returned,
\* whatever was decoded in between.
C17_DecodeIsPure ==
    pc = "done" =>
        \A i \in EarlierSame :
            /\ result.keywords = decode_log[i].keywords
            /\ result.insights = decode_log[i].insights

\* a text is decoded a second time after a decode of another text that left
\* keywords and an entry for keyword A; the second decode has entry B only
C17_Witness ==
    /\ pc = "done"
    /\ Len(decode_log) = 2
    /\ decode_log[1].text = response
    /\ decode_log[2].text = Join(P_DETAILS, "\n")
    /\ decode_log[2].keywords # <<>>
    /\ DOMAIN decode_log[2].insights = {<<"A">>}
    /\ DOMAIN result.insights = {<<"B">>}
    /\ result.keywords = <<>>

\* the user's plan has a numeric limit
NumericLimit ==
    /\ user_info # <<>>
    /\ user_info[1].usage_limits.summaries_per_month # UNLIMITED

\* C20: a user whose plan has a numeric limit L completes at most L successful
\* analyses between usage resets: once L have succeeded, a further analysis
\* request is answered 429, the analyzer is not run and no analysis succeeds.
C20_AtMostLimitServed ==
    /\ [](NumericLimit =>
             served <= user_info[1].usage_limits.summaries_per_month)
    /\ [][(/\ NumericLimit
            /\ user_info' = user_info
            /\ IsLoggedIn(session)
            /\ served >= user_info[1].usage_limits.summaries_per_month
            /\ reply'.route \in Endpoints
            /\ reply' # reply) =>
              /\ reply'.status = 429
              /\ ~reply'.analyzed
              /\ served' = served]_vars

\* the loop is about to read the line that follows a keyword header naming a
\* keyword, and that line is an item by the test of the code (its first
\* character is a digit or it starts with "- ") that has content: for a digit
\* line what follows its first period, for a dash line what follows the dash
ItemAfterHeader ==
    /\ AtLine
    /\ idx > 1
    /\ IsHeaderLine(Strip(lines[idx - 1]))
    /\ KeywordName(Strip(lines[idx - 1])) # <<>>
    /\ Line # <<>>
    /\ IsItem(Line)
    /\ ~ItemFaults(Line)
    /\ ItemContent(Line) # <<>>

\* C21: a keyword-header line empties both accumulators, sets the new keyword
\* and leaves mode as it was; a numbered or bulleted line right after the
\* header, before any section marker, becomes the first title of the new
\* keyword if the mode left over is titles, its first detail if the mode left
\* over is details, and goes to neither list in any other mode (dropped if no
\* mode was left, taken as the keyword list right after the keywords marker).
C21_HeaderKeepsMode ==
    [][/\ (AtLine /\ IsHeaderLine(Line)) =>
             /\ mode' = mode
             /\ current_titles' = <<>>
             /\ current_insights' = <<>>
             /\ current_keyword' = <<KeywordName(Line)>>
             /\ keywords' = keywords
             /\ pc' = "scan"
             /\ idx' = idx + 1
       /\ ItemAfterHeader =>
             /\ current_keyword = <<KeywordName(Strip(lines[idx - 1]))>>
             /\ current_titles = <<>>
             /\ current_insights = <<>>
             /\ mode # "keywords" => (mode' = mode /\ keywords' = keywords)
             /\ mode = "keywords" => (mode' = "None" /\ keywords' = ParseKeywordLine(Line))
             /\ current_keyword' = current_keyword
             /\ current_titles' =
                    IF mode = "titles" THEN <<ItemContent(Line)>> ELSE <<>>
             /\ current_insights' =
                    IF mode = "insights" THEN <<ItemContent(Line)>> ELSE <<>>]_vars

\* header B came in details mode, left over from block A, and no marker
\* followed it: the item "1. x" after it is the detail of B
C21_Witness ==
    /\ pc = "done"
    /\ response = Join(P_CLOSED \o <<L_NUM>>, "\n")
    /\ mode = "insights"
    /\ DOMAIN result.insights = {<<"A">>, <<"B">>}
    /\ result.insights[<<"B">>] = [titles |-> <<>>, insights |-> << <<"x">> >>]

\* the routes that need a login: the wrapped pages and endpoints, and /tools
Protected == Endpoints \cup Pages \cup {"tools"}

\* C22: in every sequence of logins, logouts and protected requests, a
\* protected request made while the session holds no user_email is answered by
\* the redirect to /signin and changes nothing; the session comes to hold
\* user_email only by a login answered 200, to which an email and a password
\* were given; a login answered 401 leaves the session as it was; after a
\* logout the session holds no user_email.
C22_SessionGuardsRoutes ==
    /\ []((reply = NoReply /\ pc = "idle") => ~IsLoggedIn(session))
    /\ [](reply.route = "logout" => ~IsLoggedIn(session))
    /\ [](IsLoggedIn(session) => session["user_email"] # "")
    /\ [][/\ (~IsLoggedIn(session) /\ reply' # reply
                 /\ reply'.route \in Protected) =>
                /\ reply'.status = 302
                /\ ~reply'.analyzed
                /\ session' = session
                /\ served' = served
                /\ user_info' = user_info
          /\ (~IsLoggedIn(session) /\ IsLoggedIn(session')) =>
                /\ reply'.route = "login"
                /\ reply'.status = 200
          /\ (reply'.route = "login" /\ reply'.status = 401) =>
                session' = session
          /\ (reply'.route = "logout" /\ reply' # reply) =>
                session' = EmptyMap]_vars

\* logged out after an analysis was served, the user asked for an analysis
\* again and was redirected
C22_Witness ==
    /\ served = 1
    /\ ~IsLoggedIn(session)
    /\ reply = [route |-> "analyze-question", status |-> 302, analyzed |-> FALSE]

====
